---- MODULE Spec2Model ----
(***************************************************************************)
(* A model of 09-specializations-metaprogramming/5-decltype/decltype.cpp.  *)
(*                                                                         *)
(* The program is a single thread of control.  Its state is one record:   *)
(* the position (function, source line, sub-step within the line), the    *)
(* stack of return positions, the store (addresses, their values, which   *)
(* of them are live), the reference bindings, the value being returned,   *)
(* the element allocation of the vector, the text written to std::cout    *)
(* (and, for each type name written, the argument it was written for) and *)
(* the exit status.  One step is one statement, one call, one return or   *)
(* one stream insertion.                                                   *)
(*                                                                         *)
(* Types are compile-time: the deduced type of every declaration is       *)
(* computed by the operators Decltype, AutoType and DecltypeAuto, and a   *)
(* declaration creates storage or binds a reference according to it.      *)
(***************************************************************************)
EXTENDS Integers, Sequences, FiniteSets, TLC

VARIABLES run, run2, h

vars == <<run, run2, h>>

(***************************************************************************)
(* Bounds of the model.                                                    *)
(***************************************************************************)
\* values a test assignment may store: 0 .. MaxProbeVal
MaxProbeVal == 2
\* operands handed to add: integers -MaxArg .. MaxArg, doubles in the same range
MaxArg == 5
\* the values a read of dead storage may produce: 0 .. MaxIndet
MaxIndet == 1

(***************************************************************************)
(* Types.  A type is a base type and a reference category.                 *)
(***************************************************************************)
Ty(base, ref) == [base |-> base, ref |-> ref]

IntT == Ty("int", "none")

DoubleT == Ty("double", "none")

IterT == Ty("iter", "none")

remove_reference(t) == Ty(t.base, "none")

(***************************************************************************)
(* Values.  An int n is IntV(n).  A double is kept exactly, in halves:     *)
(* DblV(k) is the double k/2, so 4.5 is DblV(9) and 7.5 is DblV(15).       *)
(* An iterator is the index of the element it points at.                   *)
(***************************************************************************)
Val(ty, v) == [ty |-> ty, v |-> v]

IntV(n) == Val("int", n)

DblV(k) == Val("double", k)

IterV(i) == Val("iter", i)

NoVal == Val("none", 0)

\* int -> double, exact for every int of the model
IntToDouble(x) == DblV(2 * x.v)

\* double -> int truncates toward zero
DoubleToInt(x) == IF x.v >= 0 THEN IntV(x.v \div 2) ELSE IntV(-((-x.v) \div 2))

ConvertTo(base, x) ==
    IF x.ty = base THEN x
    ELSE IF base = "double" /\ x.ty = "int" THEN IntToDouble(x)
    ELSE IF base = "int" /\ x.ty = "double" THEN DoubleToInt(x)
    ELSE x

(***************************************************************************)
(* Expressions, as far as type deduction looks at them: the syntactic form *)
(* ("id" is an unparenthesized identifier), the value category, the type   *)
(* of the expression and, for an identifier, the declared type of the      *)
(* entity it names.                                                        *)
(***************************************************************************)
Expr(form, cat, base, declared) ==
    [form |-> form, cat |-> cat, base |-> base, declared |-> declared]

\* x : the identifier itself
IdExpr(declared) == Expr("id", "lvalue", declared.base, declared)

\* (x) : the identifier in parentheses, an lvalue expression
ParenExpr(declared) == Expr("paren", "lvalue", declared.base, declared)

\* a literal
LitExpr(base) == Expr("lit", "prvalue", base, Ty(base, "none"))

\* the category of a call follows the return type of the function
CallCat(rt) ==
    IF rt.ref = "lref" THEN "lvalue"
    ELSE IF rt.ref = "rref" THEN "xvalue"
    ELSE "prvalue"

CallExpr(rt) == Expr("call", CallCat(rt), rt.base, rt)

\* decltype with the parentheses of (x) dropped: every identifier is rule 1
DecltypeIgnoringParens(e) ==
    IF e.form \in {"id", "paren"} THEN e.declared
    ELSE IF e.cat = "lvalue" THEN Ty(e.base, "lref")
    ELSE IF e.cat = "xvalue" THEN Ty(e.base, "rref")
    ELSE Ty(e.base, "none")

\* decltype(e): rule 1 (unparenthesized identifier: the declared type),
\* rule 2 (lvalue: T&), rule 3 (xvalue: T&&), rule 4 (prvalue: T)
Decltype(e) ==
    IF e.form = "id" THEN e.declared
    ELSE IF e.cat = "lvalue" THEN Ty(e.base, "lref")
    ELSE IF e.cat = "xvalue" THEN Ty(e.base, "rref")
    ELSE Ty(e.base, "none")

\* auto that keeps the reference of its initialiser
AutoTypeKeepingRef(e) == Decltype(e)

\* auto: the type of the expression with the reference dropped
AutoType(e) == Ty(e.base, "none")

\* decltype(auto): decltype of the initialiser or returned expression
DecltypeAuto(e) == Decltype(e)

\* the usual arithmetic conversions of t + u
ArithBase(a, b) == IF a = "double" \/ b = "double" THEN "double" ELSE "int"

\* -> decltype(t + u), t + u a prvalue of the usual arithmetic type
add_type(T, U) ==
    Decltype(Expr("binary", "prvalue", ArithBase(T.base, U.base),
                  Ty(ArithBase(T.base, U.base), "none")))

\* add declared to return T, the type of its first parameter
addReturningT(t, u) ==
    ConvertTo(t.ty, Val(ArithBase(t.ty, u.ty),
                        ConvertTo(ArithBase(t.ty, u.ty), t).v
                        + ConvertTo(ArithBase(t.ty, u.ty), u).v))

\* template add(T t, U u) -> decltype(t + u) { return t + u; }: both operands
\* are converted to the type of t + u, added, and returned as that type
add(t, u) ==
    ConvertTo(add_type(Ty(t.ty, "none"), Ty(u.ty, "none")).base,
              Val(ArithBase(t.ty, u.ty),
                  ConvertTo(ArithBase(t.ty, u.ty), t).v
                  + ConvertTo(ArithBase(t.ty, u.ty), u).v))

\* typeid(...).name() of a type: typeid ignores the reference and the
\* top-level cv-qualification, the name is the implementation's (here the
\* Itanium ABI's)
TypeidName(t) ==
    CASE t.base = "int" -> "i"
      [] t.base = "double" -> "d"
      [] t.base = "iter" -> "N9__gnu_cxx17__normal_iteratorIPiSt6vectorIiSaIiEEEE"
      [] OTHER -> "?"

(***************************************************************************)
(* The symbol table: the return type of every function and the deduced     *)
(* type of every declared variable.                                        *)
(***************************************************************************)
get_rvalue_type == Ty("int", "rref")

get_ref_type == Ty("int", "lref")

get_auto_type == AutoType(CallExpr(get_ref_type))

get_decltype_auto_type == DecltypeAuto(CallExpr(get_ref_type))

TypeOf(name) ==
    CASE name = "rule1.x" -> IntT
      [] name = "rule1.a" -> Decltype(IdExpr(IntT))
      [] name = "rule2.x" -> IntT
      [] name = "rule2.b" -> Decltype(ParenExpr(IntT))
      [] name = "rule3.c" -> Decltype(CallExpr(get_rvalue_type))
      [] name = "rule4.d" -> Decltype(LitExpr("int"))
      [] name = "add.t" -> IntT
      [] name = "add.u" -> DoubleT
      [] name = "function_return_type.sum" -> AutoType(CallExpr(add_type(IntT, DoubleT)))
      [] name = "complex_types.vec" -> Ty("vector", "none")
      [] name = "complex_types.it" -> Decltype(CallExpr(IterT))
      [] name = "decltype_auto_demo.val" -> AutoType(CallExpr(get_auto_type))
      [] name = "decltype_auto_demo.ref" -> DecltypeAuto(CallExpr(get_decltype_auto_type))
      [] name = "parentheses_effect.x" -> IntT
      [] name = "parentheses_effect.a" -> Decltype(IdExpr(IntT))
      [] name = "parentheses_effect.b" -> Decltype(ParenExpr(IntT))
      [] OTHER -> Ty("none", "none")

\* template <typename T> void print_type(const T& var, ...): T is deduced
\* from the argument expression, whose type is never a reference
DeduceT(argType) == remove_reference(argType)

(***************************************************************************)
(* Storage.  An address is the qualified name of the object.  Objects with *)
(* static storage duration are live from the start; the locals of a        *)
(* function are live from their declaration to the function's return.      *)
(***************************************************************************)
Statics == {"global_var", "get_rvalue.val"}

Locals(fn) ==
    CASE fn = "rule1" -> {"rule1.x", "rule1.a"}
      [] fn = "rule2" -> {"rule2.x", "rule2.b"}
      [] fn = "rule3" -> {"rule3.c"}
      [] fn = "rule4" -> {"rule4.d"}
      [] fn = "add" -> {"add.t", "add.u"}
      [] fn = "function_return_type" -> {"function_return_type.sum"}
      [] fn = "complex_types" -> {"complex_types.vec", "complex_types.it"}
      [] fn = "decltype_auto_demo" -> {"decltype_auto_demo.val", "decltype_auto_demo.ref"}
      [] fn = "parentheses_effect" ->
            {"parentheses_effect.x", "parentheses_effect.a", "parentheses_effect.b"}
      [] fn = "print_type" -> {"print_type.var"}
      [] OTHER -> {}

Functions ==
    {"main", "rule1", "rule2", "get_rvalue", "rule3", "rule4", "add",
     "function_return_type", "complex_types", "get_ref", "get_auto",
     "get_decltype_auto", "decltype_auto_demo", "parentheses_effect", "print_type"}

Names == UNION {Locals(fn) : fn \in Functions}

Addrs == Statics \cup Names

\* what a read of storage that is not live may produce
Indet == {IntV(v) : v \in 0..MaxIndet}

P(fn, line, k) == [fn |-> fn, line |-> line, k |-> k]

\* the result of evaluating an expression: a value (prvalue) or the address
\* of an object (lvalue, xvalue)
PrV(v) == [cat |-> "prvalue", a |-> "null", v |-> v]

GlV(cat, a) == [cat |-> cat, a |-> a, v |-> NoVal]

NoRet == [cat |-> "none", a |-> "null", v |-> NoVal]

NoPt == [arg |-> "null", T |-> Ty("none", "none"), var_name |-> ""]

Tok(k, t) == [k |-> k, t |-> t]

\* the assignment a step made to a named variable, if it made one
NoAsg == [name |-> "null", v |-> 0]

InitState ==
    [pc |-> P("main", 107, 0),
     stack |-> <<>>,
     mem |-> [a \in Addrs |->
                IF a = "global_var" THEN IntV(10)
                ELSE IF a = "get_rvalue.val" THEN IntV(42)
                ELSE NoVal],
     live |-> Statics,
     refs |-> [n \in Names |-> "null"],
     ret |-> NoRet,
     heap |-> <<>>,
     pt |-> NoPt,
     out |-> <<>>,
     rendered |-> {},
     acc |-> {},
     asg |-> NoAsg,
     status |-> -1]

\* the object a name denotes: the referent of a reference, else the variable
Lookup(s, name) ==
    IF name \in Names /\ s.refs[name] # "null" THEN s.refs[name] ELSE name

\* the values a read of address a may produce
Read(s, a) == IF a \in s.live THEN {s.mem[a]} ELSE Indet

\* the values an evaluated expression may convert to (lvalue-to-rvalue)
ValuesOf(s, e) == IF e.cat = "prvalue" THEN {e.v} ELSE Read(s, e.a)

Reads(e) == IF e.cat = "prvalue" THEN {} ELSE {e.a}

\* a statement starts with no access and no assignment recorded
Clr(s) == [s EXCEPT !.acc = {}, !.asg = NoAsg]

Goto(s, line, k) == [s EXCEPT !.pc = P(s.pc.fn, line, k)]

\* the declaration "ty name = init;": an object of a non-reference type is
\* new storage initialised with the converted value; a reference is bound to
\* the object the initialiser denotes (a prvalue is materialised in place)
Declare(s, name, ty, init) ==
    IF ty.ref = "none" \/ init.cat = "prvalue"
    THEN {[s EXCEPT !.mem[name] = ConvertTo(ty.base, v),
                    !.live = @ \cup {name},
                    !.acc = @ \cup Reads(init) \cup {name}] : v \in ValuesOf(s, init)}
    ELSE {[s EXCEPT !.refs[name] = init.a]}

\* a call: the return position is pushed and control enters the callee
Call(s, fn, line, retLine, retK) ==
    [s EXCEPT !.stack = Append(@, P(s.pc.fn, retLine, retK)),
              !.pc = P(fn, line, 0)]

\* the end of a function: its locals die and control returns to the caller
Leave(s) ==
    [s EXCEPT !.pc = s.stack[Len(s.stack)],
              !.stack = SubSeq(@, 1, Len(@) - 1),
              !.live = @ \ Locals(s.pc.fn),
              !.mem = [a \in Addrs |-> IF a \in Locals(s.pc.fn) THEN NoVal ELSE @[a]],
              !.refs = [n \in Names |-> IF n \in Locals(s.pc.fn) THEN "null" ELSE @[n]]]

\* "return e;" in a function of return type rt: by value the operand is
\* read and copied, by reference the object itself is handed back
ReturnExpr(s, rt, e) ==
    IF rt.ref = "none"
    THEN {Leave([s EXCEPT !.ret = PrV(ConvertTo(rt.base, v)),
                          !.acc = @ \cup Reads(e)]) : v \in ValuesOf(s, e)}
    ELSE {Leave([s EXCEPT !.ret = GlV(CallCat(rt), e.a)])}

\* print_type(arg, label): var is bound to the object arg denotes
CallPrint(s, arg, label, retLine) ==
    LET c == Call(s, "print_type", 14, retLine, 0)
    IN [c EXCEPT !.refs["print_type.var"] = Lookup(s, arg),
                 !.pt = [arg |-> arg, T |-> DeduceT(TypeOf(arg)), var_name |-> label]]

Emit(s, tok) == [s EXCEPT !.out = Append(@, tok)]

(***************************************************************************)
(* The functions of the program.  Each operator gives, for a state whose   *)
(* position is in that function, the set of states its next step may       *)
(* produce (one state, except where dead storage is read).                 *)
(***************************************************************************)
Banner(s, text, nextLine) == {Goto(Emit(s, Tok("banner", text)), nextLine, 0)}

\* main with the calls under "Rule 2" and "Rule 3" exchanged
main_rule2_rule3_swapped(s0) ==
    LET s == Clr(s0) IN
    CASE s.pc.line = 107 -> Banner(s, "Rule 1:\n", 108)
      [] s.pc.line = 108 -> {Call(s, "rule1", 21, 110, 0)}
      [] s.pc.line = 110 -> Banner(s, "\nRule 2:\n", 111)
      [] s.pc.line = 111 -> {Call(s, "rule3", 42, 113, 0)}
      [] s.pc.line = 113 -> Banner(s, "\nRule 3:\n", 114)
      [] s.pc.line = 114 -> {Call(s, "rule2", 29, 116, 0)}
      [] s.pc.line = 116 -> Banner(s, "\nRule 4:\n", 117)
      [] s.pc.line = 117 -> {Call(s, "rule4", 49, 119, 0)}
      [] s.pc.line = 119 -> Banner(s, "\nFunction Return Type:\n", 120)
      [] s.pc.line = 120 -> {Call(s, "function_return_type", 61, 122, 0)}
      [] s.pc.line = 122 -> Banner(s, "\nComplex Types:\n", 123)
      [] s.pc.line = 123 -> {Call(s, "complex_types", 68, 125, 0)}
      [] s.pc.line = 125 -> Banner(s, "\ndecltype(auto) Demo:\n", 126)
      [] s.pc.line = 126 -> {Call(s, "decltype_auto_demo", 89, 128, 0)}
      [] s.pc.line = 128 -> Banner(s, "\nParentheses Effect:\n", 129)
      [] s.pc.line = 129 -> {Call(s, "parentheses_effect", 98, 131, 0)}
      [] s.pc.line = 131 -> {[s EXCEPT !.status = 0, !.pc = P("exit", 132, 0)]}
      [] OTHER -> {}

\* main that ends with "return 1;"
main_returning_1(s0) ==
    LET s == Clr(s0) IN
    CASE s.pc.line = 107 -> Banner(s, "Rule 1:\n", 108)
      [] s.pc.line = 108 -> {Call(s, "rule1", 21, 110, 0)}
      [] s.pc.line = 110 -> Banner(s, "\nRule 2:\n", 111)
      [] s.pc.line = 111 -> {Call(s, "rule2", 29, 113, 0)}
      [] s.pc.line = 113 -> Banner(s, "\nRule 3:\n", 114)
      [] s.pc.line = 114 -> {Call(s, "rule3", 42, 116, 0)}
      [] s.pc.line = 116 -> Banner(s, "\nRule 4:\n", 117)
      [] s.pc.line = 117 -> {Call(s, "rule4", 49, 119, 0)}
      [] s.pc.line = 119 -> Banner(s, "\nFunction Return Type:\n", 120)
      [] s.pc.line = 120 -> {Call(s, "function_return_type", 61, 122, 0)}
      [] s.pc.line = 122 -> Banner(s, "\nComplex Types:\n", 123)
      [] s.pc.line = 123 -> {Call(s, "complex_types", 68, 125, 0)}
      [] s.pc.line = 125 -> Banner(s, "\ndecltype(auto) Demo:\n", 126)
      [] s.pc.line = 126 -> {Call(s, "decltype_auto_demo", 89, 128, 0)}
      [] s.pc.line = 128 -> Banner(s, "\nParentheses Effect:\n", 129)
      [] s.pc.line = 129 -> {Call(s, "parentheses_effect", 98, 131, 0)}
      [] s.pc.line = 131 -> {[s EXCEPT !.status = 1, !.pc = P("exit", 132, 0)]}
      [] OTHER -> {}

main(s0) ==
    LET s == Clr(s0) IN
    CASE s.pc.line = 107 -> Banner(s, "Rule 1:\n", 108)
      [] s.pc.line = 108 -> {Call(s, "rule1", 21, 110, 0)}
      [] s.pc.line = 110 -> Banner(s, "\nRule 2:\n", 111)
      [] s.pc.line = 111 -> {Call(s, "rule2", 29, 113, 0)}
      [] s.pc.line = 113 -> Banner(s, "\nRule 3:\n", 114)
      [] s.pc.line = 114 -> {Call(s, "rule3", 42, 116, 0)}
      [] s.pc.line = 116 -> Banner(s, "\nRule 4:\n", 117)
      [] s.pc.line = 117 -> {Call(s, "rule4", 49, 119, 0)}
      [] s.pc.line = 119 -> Banner(s, "\nFunction Return Type:\n", 120)
      [] s.pc.line = 120 -> {Call(s, "function_return_type", 61, 122, 0)}
      [] s.pc.line = 122 -> Banner(s, "\nComplex Types:\n", 123)
      [] s.pc.line = 123 -> {Call(s, "complex_types", 68, 125, 0)}
      [] s.pc.line = 125 -> Banner(s, "\ndecltype(auto) Demo:\n", 126)
      [] s.pc.line = 126 -> {Call(s, "decltype_auto_demo", 89, 128, 0)}
      [] s.pc.line = 128 -> Banner(s, "\nParentheses Effect:\n", 129)
      [] s.pc.line = 129 -> {Call(s, "parentheses_effect", 98, 131, 0)}
      [] s.pc.line = 131 -> {[s EXCEPT !.status = 0, !.pc = P("exit", 132, 0)]}
      [] OTHER -> {}

print_type(s0) ==
    LET s == Clr(s0) IN
    CASE s.pc.line = 14 /\ s.pc.k = 0 -> {Goto(Emit(s, Tok("name", s.pt.var_name)), 14, 1)}
      [] s.pc.line = 14 /\ s.pc.k = 1 -> {Goto(Emit(s, Tok("sep", " : ")), 14, 2)}
      [] s.pc.line = 14 /\ s.pc.k = 2 -> 
            {Goto([Emit(s, Tok("type", TypeidName(s.pt.T))) EXCEPT
                      !.rendered = @ \cup {[arg |-> s.pt.arg, text |-> TypeidName(s.pt.T)]}],
                  14, 3)}
      [] s.pc.line = 14 /\ s.pc.k = 3 -> {Goto(Emit(s, Tok("nl", "\n")), 15, 0)}
      [] s.pc.line = 15 -> {Leave([s EXCEPT !.pt = NoPt])}
      [] OTHER -> {}

\* rule1 with "decltype((x)) a = x;" for its line 22
rule1_a_parenthesized(s0) ==
    LET s == Clr(s0) IN
    CASE s.pc.line = 21 ->
            {Goto(t, 22, 0) : t \in Declare(s, "rule1.x", TypeOf("rule1.x"), PrV(IntV(0)))}
      [] s.pc.line = 22 ->
            {Goto(t, 23, 0) : t \in Declare(s, "rule1.a", Decltype(ParenExpr(IntT)), GlV("lvalue", "rule1.x"))}
      [] s.pc.line = 23 -> {CallPrint(s, "rule1.a", "a", 24)}
      [] s.pc.line = 24 -> {Leave(s)}
      [] OTHER -> {}

\* rule1 with "int x;" and "decltype(x) a = x;": x is read before it has a value
rule1_x_uninitialised(s0) ==
    LET s == Clr(s0) IN
    CASE s.pc.line = 21 ->
            {Goto(t, 22, 0) : t \in UNION {Declare(s, "rule1.x", TypeOf("rule1.x"), PrV(v)) : v \in Indet}}
      [] s.pc.line = 22 ->
            {Goto(t, 23, 0) : t \in Declare(s, "rule1.a", TypeOf("rule1.a"), GlV("lvalue", "rule1.x"))}
      [] s.pc.line = 23 -> {CallPrint(s, "rule1.a", "a", 24)}
      [] s.pc.line = 24 -> {Leave(s)}
      [] OTHER -> {}

rule1(s0) ==
    LET s == Clr(s0) IN
    CASE s.pc.line = 21 ->
            {Goto(t, 22, 0) : t \in Declare(s, "rule1.x", TypeOf("rule1.x"), PrV(IntV(0)))}
      [] s.pc.line = 22 ->
            {Goto(t, 23, 0) : t \in Declare(s, "rule1.a", TypeOf("rule1.a"), PrV(IntV(1)))}
      [] s.pc.line = 23 -> {CallPrint(s, "rule1.a", "a", 24)}
      [] s.pc.line = 24 -> {Leave(s)}
      [] OTHER -> {}

rule2(s0) ==
    LET s == Clr(s0) IN
    CASE s.pc.line = 29 ->
            {Goto(t, 30, 0) : t \in Declare(s, "rule2.x", TypeOf("rule2.x"), PrV(IntV(0)))}
      [] s.pc.line = 30 ->
            {Goto(t, 31, 0) :
                t \in Declare(s, "rule2.b", TypeOf("rule2.b"), GlV("lvalue", "rule2.x"))}
      [] s.pc.line = 31 -> {CallPrint(s, "rule2.b", "b", 32)}
      [] s.pc.line = 32 -> {Leave(s)}
      [] OTHER -> {}

\* get_rvalue with "int val = 42;": val is a local and dies at the return
get_rvalue_local_val(s0) ==
    LET s == Clr(s0) IN
    CASE s.pc.line = 38 ->
            {[t EXCEPT !.live = @ \ {"get_rvalue.val"}] :
                t \in ReturnExpr(s, get_rvalue_type, GlV("xvalue", "get_rvalue.val"))}
      [] OTHER -> {}

\* static int val = 42; return std::move(val);
get_rvalue(s0) ==
    LET s == Clr(s0) IN
    CASE s.pc.line = 38 -> ReturnExpr(s, get_rvalue_type, GlV("xvalue", "get_rvalue.val"))
      [] OTHER -> {}

rule3(s0) ==
    LET s == Clr(s0) IN
    CASE s.pc.line = 42 /\ s.pc.k = 0 -> {Call(s, "get_rvalue", 38, 42, 1)}
      [] s.pc.line = 42 /\ s.pc.k = 1 ->
            {Goto([t EXCEPT !.ret = NoRet], 43, 0) :
                t \in Declare(s, "rule3.c", TypeOf("rule3.c"), s.ret)}
      [] s.pc.line = 43 -> {CallPrint(s, "rule3.c", "c", 44)}
      [] s.pc.line = 44 -> {Leave(s)}
      [] OTHER -> {}

rule4(s0) ==
    LET s == Clr(s0) IN
    CASE s.pc.line = 49 ->
            {Goto(t, 50, 0) : t \in Declare(s, "rule4.d", TypeOf("rule4.d"), PrV(IntV(42)))}
      [] s.pc.line = 50 -> {CallPrint(s, "rule4.d", "d", 51)}
      [] s.pc.line = 51 -> {Leave(s)}
      [] OTHER -> {}

\* the body of add<int, double>: return t + u;
add_body(s0) ==
    LET s == Clr(s0) IN
    CASE s.pc.line = 57 ->
            UNION {ReturnExpr([s EXCEPT !.acc = {"add.t", "add.u"}],
                              add_type(TypeOf("add.t"), TypeOf("add.u")),
                              PrV(add(tv, uv))) :
                   <<tv, uv>> \in Read(s, "add.t") \X Read(s, "add.u")}
      [] OTHER -> {}

function_return_type(s0) ==
    LET s == Clr(s0) IN
    CASE s.pc.line = 61 /\ s.pc.k = 0 ->
            {Call(u, "add", 57, 61, 1) :
                u \in UNION {Declare(t, "add.u", TypeOf("add.u"), PrV(DblV(9))) :
                             t \in Declare(s, "add.t", TypeOf("add.t"), PrV(IntV(3)))}}
      [] s.pc.line = 61 /\ s.pc.k = 1 ->
            {Goto([t EXCEPT !.ret = NoRet], 62, 0) :
                t \in Declare(s, "function_return_type.sum",
                              TypeOf("function_return_type.sum"), s.ret)}
      [] s.pc.line = 62 -> {CallPrint(s, "function_return_type.sum", "sum", 63)}
      [] s.pc.line = 63 -> {Leave(s)}
      [] OTHER -> {}

\* vec.begin(): the position of the first element (of no element when empty)
begin(s) == IterV(IF s.heap = <<>> THEN 0 ELSE 1)

complex_types(s0) ==
    LET s == Clr(s0) IN
    CASE s.pc.line = 68 ->
            {Goto([t EXCEPT !.heap = <<IntV(1), IntV(2), IntV(3)>>], 69, 0) :
                t \in Declare(s, "complex_types.vec", TypeOf("complex_types.vec"),
                              PrV(Val("vector", 3)))}
      [] s.pc.line = 69 ->
            {Goto([t EXCEPT !.acc = @ \cup {"complex_types.vec"}], 70, 0) :
                t \in Declare(s, "complex_types.it", TypeOf("complex_types.it"),
                              PrV(begin(s)))}
      [] s.pc.line = 70 -> {CallPrint(s, "complex_types.it", "it", 71)}
      [] s.pc.line = 71 -> {Leave([s EXCEPT !.heap = <<>>])}
      [] OTHER -> {}

\* get_ref with "return ++global_var;"
get_ref_incrementing(s0) ==
    LET s == Clr(s0) IN
    CASE s.pc.line = 77 ->
            ReturnExpr([s EXCEPT !.mem["global_var"] = IntV(@.v + 1),
                                 !.acc = {"global_var"}],
                       get_ref_type, GlV("lvalue", "global_var"))
      [] OTHER -> {}

\* return global_var;
get_ref(s0) ==
    LET s == Clr(s0) IN
    CASE s.pc.line = 77 -> ReturnExpr(s, get_ref_type, GlV("lvalue", "global_var"))
      [] OTHER -> {}

get_auto(s0) ==
    LET s == Clr(s0) IN
    CASE s.pc.line = 81 /\ s.pc.k = 0 -> {Call(s, "get_ref", 77, 81, 1)}
      [] s.pc.line = 81 /\ s.pc.k = 1 -> ReturnExpr(s, get_auto_type, s.ret)
      [] OTHER -> {}

get_decltype_auto(s0) ==
    LET s == Clr(s0) IN
    CASE s.pc.line = 85 /\ s.pc.k = 0 -> {Call(s, "get_ref", 77, 85, 1)}
      [] s.pc.line = 85 /\ s.pc.k = 1 -> ReturnExpr(s, get_decltype_auto_type, s.ret)
      [] OTHER -> {}

decltype_auto_demo(s0) ==
    LET s == Clr(s0) IN
    CASE s.pc.line = 89 /\ s.pc.k = 0 -> {Call(s, "get_auto", 81, 89, 1)}
      [] s.pc.line = 89 /\ s.pc.k = 1 ->
            {Goto([t EXCEPT !.ret = NoRet], 90, 0) :
                t \in Declare(s, "decltype_auto_demo.val",
                              TypeOf("decltype_auto_demo.val"), s.ret)}
      [] s.pc.line = 90 /\ s.pc.k = 0 -> {Call(s, "get_decltype_auto", 85, 90, 1)}
      [] s.pc.line = 90 /\ s.pc.k = 1 ->
            {Goto([t EXCEPT !.ret = NoRet], 91, 0) :
                t \in Declare(s, "decltype_auto_demo.ref",
                              TypeOf("decltype_auto_demo.ref"), s.ret)}
      [] s.pc.line = 91 -> {CallPrint(s, "decltype_auto_demo.val", "val", 92)}
      [] s.pc.line = 92 -> {CallPrint(s, "decltype_auto_demo.ref", "ref", 93)}
      [] s.pc.line = 93 -> {Leave(s)}
      [] OTHER -> {}

parentheses_effect(s0) ==
    LET s == Clr(s0) IN
    CASE s.pc.line = 98 ->
            {Goto(t, 99, 0) :
                t \in Declare(s, "parentheses_effect.x", TypeOf("parentheses_effect.x"),
                              PrV(IntV(0)))}
      [] s.pc.line = 99 ->
            {Goto(t, 100, 0) :
                t \in Declare(s, "parentheses_effect.a", TypeOf("parentheses_effect.a"),
                              PrV(IntV(1)))}
      [] s.pc.line = 100 ->
            {Goto(t, 101, 0) :
                t \in Declare(s, "parentheses_effect.b", TypeOf("parentheses_effect.b"),
                              GlV("lvalue", "parentheses_effect.x"))}
      [] s.pc.line = 101 -> {CallPrint(s, "parentheses_effect.a", "a", 102)}
      [] s.pc.line = 102 -> {CallPrint(s, "parentheses_effect.b", "b", 103)}
      [] s.pc.line = 103 -> {Leave(s)}
      [] OTHER -> {}

\* the next step of the program from state s, whatever function it is in
Step(s) ==
    CASE s.pc.fn = "main" -> main(s)
      [] s.pc.fn = "print_type" -> print_type(s)
      [] s.pc.fn = "rule1" -> rule1(s)
      [] s.pc.fn = "rule2" -> rule2(s)
      [] s.pc.fn = "get_rvalue" -> get_rvalue(s)
      [] s.pc.fn = "rule3" -> rule3(s)
      [] s.pc.fn = "rule4" -> rule4(s)
      [] s.pc.fn = "add" -> add_body(s)
      [] s.pc.fn = "function_return_type" -> function_return_type(s)
      [] s.pc.fn = "complex_types" -> complex_types(s)
      [] s.pc.fn = "get_ref" -> get_ref(s)
      [] s.pc.fn = "get_auto" -> get_auto(s)
      [] s.pc.fn = "get_decltype_auto" -> get_decltype_auto(s)
      [] s.pc.fn = "decltype_auto_demo" -> decltype_auto_demo(s)
      [] s.pc.fn = "parentheses_effect" -> parentheses_effect(s)
      [] OTHER -> {}

(***************************************************************************)
(* The state of the model: run is the program; run2 is a second run of the *)
(* same program, stepped only in SpecPair; h is a call of add on operands  *)
(* of its own, made only in SpecAdd.                                       *)
(***************************************************************************)
NoCall == [t |-> NoVal, u |-> NoVal, r |-> NoVal]

Init == run = InitState /\ run2 = InitState /\ h = NoCall

In(fn) == run.pc.fn = fn

Do_main == In("main") /\ run' \in main(run) /\ UNCHANGED <<run2, h>>

Do_print_type == In("print_type") /\ run' \in print_type(run) /\ UNCHANGED <<run2, h>>

Do_rule1 == In("rule1") /\ run' \in rule1(run) /\ UNCHANGED <<run2, h>>

Do_rule2 == In("rule2") /\ run' \in rule2(run) /\ UNCHANGED <<run2, h>>

Do_get_rvalue == In("get_rvalue") /\ run' \in get_rvalue(run) /\ UNCHANGED <<run2, h>>

Do_rule3 == In("rule3") /\ run' \in rule3(run) /\ UNCHANGED <<run2, h>>

Do_rule4 == In("rule4") /\ run' \in rule4(run) /\ UNCHANGED <<run2, h>>

Do_add == In("add") /\ run' \in add_body(run) /\ UNCHANGED <<run2, h>>

Do_function_return_type ==
    In("function_return_type") /\ run' \in function_return_type(run) /\ UNCHANGED <<run2, h>>

Do_complex_types ==
    In("complex_types") /\ run' \in complex_types(run) /\ UNCHANGED <<run2, h>>

Do_get_ref == In("get_ref") /\ run' \in get_ref(run) /\ UNCHANGED <<run2, h>>

Do_get_auto == In("get_auto") /\ run' \in get_auto(run) /\ UNCHANGED <<run2, h>>

Do_get_decltype_auto ==
    In("get_decltype_auto") /\ run' \in get_decltype_auto(run) /\ UNCHANGED <<run2, h>>

Do_decltype_auto_demo ==
    In("decltype_auto_demo") /\ run' \in decltype_auto_demo(run) /\ UNCHANGED <<run2, h>>

Do_parentheses_effect ==
    In("parentheses_effect") /\ run' \in parentheses_effect(run) /\ UNCHANGED <<run2, h>>

Next ==
    \/ Do_main
    \/ Do_print_type
    \/ Do_rule1
    \/ Do_rule2
    \/ Do_get_rvalue
    \/ Do_rule3
    \/ Do_rule4
    \/ Do_add
    \/ Do_function_return_type
    \/ Do_complex_types
    \/ Do_get_ref
    \/ Do_get_auto
    \/ Do_get_decltype_auto
    \/ Do_decltype_auto_demo
    \/ Do_parentheses_effect

Spec == Init /\ [][Next]_vars

\* the scheduling of a sequential program: it keeps executing until it exits
FairSpec == Spec /\ WF_vars(Next)

(***************************************************************************)
(* Two runs of the program side by side: run2 takes the same steps as run, *)
(* independently of it.                                                    *)
(***************************************************************************)
OtherRun == run2' \in Step(run2) /\ UNCHANGED <<run, h>>

NextPair == Next \/ OtherRun

SpecPair == Init /\ [][NextPair]_vars

(***************************************************************************)
(* Test assignments.  The demonstration routines declare their variables   *)
(* and never assign to them afterwards; section 8 of the specification     *)
(* tests the bindings by assigning (the alias is assigned 1 and the        *)
(* original is read).  TestAssign is such an assignment "name = v;" placed *)
(* in a routine, between two of its statements, to a variable that routine *)
(* can name and has declared.                                              *)
(***************************************************************************)
Assignable ==
    {"rule1.x", "rule1.a", "rule2.x", "rule2.b",
     "decltype_auto_demo.val", "decltype_auto_demo.ref", "global_var",
     "parentheses_effect.x", "parentheses_effect.a", "parentheses_effect.b"}

Declared(s, name) == name \in s.live \/ (name \in Names /\ s.refs[name] # "null")

InScope(s, name) ==
    /\ Declared(s, name)
    /\ \/ name \in Locals(s.pc.fn)
       \/ name = "global_var" /\ s.pc.fn = "decltype_auto_demo"

\* name = v;  the object the name denotes is written
Assign(s, name, v) ==
    [s EXCEPT !.mem[Lookup(s, name)] = IntV(v),
              !.acc = {Lookup(s, name)},
              !.asg = [name |-> name, v |-> v]]

TestAssign ==
    \E name \in Assignable, v \in 0..MaxProbeVal :
        /\ InScope(run, name)
        /\ run' = Assign(run, name, v)
        /\ UNCHANGED <<run2, h>>

NextProbe == Next \/ TestAssign

SpecProbe == Init /\ [][NextProbe]_vars

(***************************************************************************)
(* add as a function of its operands: h holds two operands, drawn from the *)
(* ints and the doubles of the model, and the result of add once called.   *)
(***************************************************************************)
Operands ==
    {IntV(n) : n \in -MaxArg..MaxArg} \cup {DblV(k) : k \in -(2 * MaxArg)..(2 * MaxArg)}

InitAdd ==
    /\ run = InitState
    /\ run2 = InitState
    /\ h \in {[t |-> a, u |-> b, r |-> NoVal] : a \in Operands, b \in Operands}

CallAdd ==
    /\ h.r = NoVal
    /\ h' = [h EXCEPT !.r = add(h.t, h.u)]
    /\ UNCHANGED <<run, run2>>

SpecAdd == InitAdd /\ [][CallAdd]_vars

(***************************************************************************)
(* Properties.                                                             *)
(***************************************************************************)
Value(s, name) == s.mem[Lookup(s, name)]

Exited(s) == s.pc.fn = "exit"

\* the frames of s: the function executing and those waiting for a return
CallChain(s) == {s.pc.fn} \cup {s.stack[i].fn : i \in 1..Len(s.stack)}

OfKind(seq, kind) == SelectSeq(seq, LAMBDA x : x.k = kind)

Texts(seq) == [i \in 1..Len(seq) |-> seq[i].t]

IsPrefix(a, b) == Len(a) <= Len(b) /\ SubSeq(b, 1, Len(a)) = a

BannerOrder ==
    <<"Rule 1:\n", "\nRule 2:\n", "\nRule 3:\n", "\nRule 4:\n",
      "\nFunction Return Type:\n", "\nComplex Types:\n",
      "\ndecltype(auto) Demo:\n", "\nParentheses Effect:\n">>

LabelOrder == <<"a", "b", "c", "d", "sum", "it", "val", "ref", "a", "b">>

\* how many labelled lines are complete when each banner is written
LinesBeforeBanner == <<0, 1, 2, 3, 4, 5, 6, 8>>

\* C1: the output holds the eight banners, each once and in the fixed order,
\* and the ten labels in the order a, b, c, d, sum, it, val, ref, a, b: at
\* every moment the banners and the labels written so far are the first so
\* many of those lists, all of them once main has returned; every banner is
\* written at the start or right after the newline that ends a line, when
\* exactly the lines of the routines before it are written, so the lines of
\* its own routine follow it.
C1_BannersAndLabelsInOrder ==
    LET out == run.out
        banners == Texts(OfKind(out, "banner"))
        labels == Texts(OfKind(out, "name"))
    IN /\ IsPrefix(banners, BannerOrder)
       /\ IsPrefix(labels, LabelOrder)
       /\ Exited(run) => banners = BannerOrder /\ labels = LabelOrder
       /\ \A i \in 1..Len(out) :
            out[i].k = "banner" =>
               /\ i = 1 \/ out[i - 1].k = "nl"
               /\ Len(OfKind(SubSeq(out, 1, i), "nl"))
                    = LinesBeforeBanner[Len(OfKind(SubSeq(out, 1, i), "banner"))]
               /\ Len(OfKind(SubSeq(out, 1, i), "name"))
                    = LinesBeforeBanner[Len(OfKind(SubSeq(out, 1, i), "banner"))]

C1_Witness ==
    /\ Exited(run)
    /\ Len(OfKind(run.out, "banner")) = 8
    /\ Len(OfKind(run.out, "name")) = 10

AliasPairs ==
    {<<"rule2.b", "rule2.x">>, <<"parentheses_effect.b", "parentheses_effect.x">>}

\* C2: once b is declared with decltype((x)), b and x read the same value at
\* every point, whatever has been assigned: a value just assigned through b
\* is the value read from x, and a value just assigned to x is the value
\* read through b (in rule2 and in parentheses_effect).
C2_BAliasesX ==
    \A p \in AliasPairs :
        Declared(run, p[1]) =>
            /\ Value(run, p[1]) = Value(run, p[2])
            /\ run.asg.name = p[1] => Value(run, p[2]) = IntV(run.asg.v)
            /\ run.asg.name = p[2] => Value(run, p[1]) = IntV(run.asg.v)

C2_Witness ==
    /\ run.pc.fn = "rule2"
    /\ Declared(run, "rule2.b")
    /\ run.asg = [name |-> "rule2.b", v |-> 1]
    /\ Value(run, "rule2.x") = IntV(1)

C3_RefAliasesGlobal ==
    Declared(run, "decltype_auto_demo.ref") =>
        /\ Value(run, "decltype_auto_demo.ref") = run.mem["global_var"]
        /\ run.asg.name = "global_var" =>
              Value(run, "decltype_auto_demo.ref") = IntV(run.asg.v)
        /\ run.asg.name = "decltype_auto_demo.ref" => run.mem["global_var"] = IntV(run.asg.v)

C3_ValKeepsItsValue ==
    /\ Declared(run, "decltype_auto_demo.val")
    /\ Declared(run', "decltype_auto_demo.val")
    /\ run'.asg.name \in {"global_var", "decltype_auto_demo.ref"}
    => Value(run', "decltype_auto_demo.val") = Value(run, "decltype_auto_demo.val")

\* C3: val, initialised from get_auto(), is a copy: no assignment to
\* global_var (direct or through ref) made after val is declared changes the
\* value of val.  ref, initialised from get_decltype_auto(), is global_var:
\* ref and global_var read the same value at every point, a value assigned
\* to global_var is read through ref, and a value assigned through ref is
\* read from global_var.
C3_ValCopiesRefAliases == [](C3_RefAliasesGlobal) /\ [][C3_ValKeepsItsValue]_vars

C3_Witness ==
    /\ Declared(run, "decltype_auto_demo.val")
    /\ Declared(run, "decltype_auto_demo.ref")
    /\ run.asg = [name |-> "global_var", v |-> 1]
    /\ Value(run, "decltype_auto_demo.val") = IntV(10)
    /\ Value(run, "decltype_auto_demo.ref") = IntV(1)

\* C4: add called with an int and a double (in either order) returns a
\* double whose value is the exact sum of the two operands, nothing
\* truncated; add(3, 4.5) is 7.5.  (Doubles are in halves: the sum of int n
\* and double k/2 is (2n + k)/2.)
C4_AddIntDoubleIsExactSum ==
    h.r # NoVal =>
        /\ h.t.ty = "int" /\ h.u.ty = "double" =>
              h.r.ty = "double" /\ h.r.v = 2 * h.t.v + h.u.v
        /\ h.t.ty = "double" /\ h.u.ty = "int" =>
              h.r.ty = "double" /\ h.r.v = h.t.v + 2 * h.u.v
        /\ h.t = IntV(3) /\ h.u = DblV(9) => h.r = DblV(15)

C4_Witness == h.t = IntV(3) /\ h.u = DblV(9) /\ h.r = DblV(15)

CopyPairs ==
    {<<"rule1.a", "rule1.x">>, <<"parentheses_effect.a", "parentheses_effect.x">>}

C5_Step ==
    \A p \in CopyPairs :
        Declared(run', p[1]) /\ Declared(run, p[2]) /\ Declared(run', p[2]) =>
            /\ TypeOf(p[1]) = TypeOf(p[2])
            /\ Lookup(run', p[1]) # Lookup(run', p[2])
            /\ ~Declared(run, p[1]) \/ run'.asg.name = p[1] =>
                  Value(run', p[2]) = Value(run, p[2])
            /\ Declared(run, p[1]) /\ run'.asg.name = p[2] =>
                  Value(run', p[1]) = Value(run, p[1])

\* C5: a, declared with decltype(x), has the declared type of x (int, no
\* reference) and is an object of its own: the step that declares and
\* initialises a, and every later assignment to a, leaves the value of x as
\* it was, and every assignment to x leaves the value of a as it was (in
\* rule1 and in parentheses_effect).
C5_AIsSeparateFromX == [][C5_Step]_vars

C5_Witness ==
    /\ run.pc.fn = "rule1"
    /\ run.asg = [name |-> "rule1.a", v |-> 2]
    /\ Value(run, "rule1.a") = IntV(2)
    /\ Value(run, "rule1.x") = IntV(0)

\* what a step accesses is live when the step begins or is created by it
AccessIsLive == run'.acc \subseteq run.live \cup run'.live

C6_NoError ==
    /\ run.status \in {-1, 0}
    /\ Exited(run) <=> run.status = 0
    /\ Exited(run) => run.stack = <<>>

\* C6: every run terminates: main returns, with every routine it called
\* returned (the stack is empty), no step on the way reads or writes dead
\* storage or sets a status other than 0, and the final state is "exited
\* with status 0".
C6_TerminatesWithStatus0 ==
    /\ [](C6_NoError)
    /\ [][AccessIsLive]_vars
    /\ <>[](Exited(run) /\ run.status = 0)

C6_Witness == Exited(run) /\ run.status = 0 /\ run.stack = <<>> /\ Len(run.out) = 48

\* C7: print_type's text for a variable is a rendering of the variable's
\* deduced type, reference category included: two variables of different
\* deduced types (a: int and b: int&, b: int& and c: int&&) are never
\* rendered by the same text.
C7_RenderingShowsDeducedType ==
    \A p, q \in run.rendered : TypeOf(p.arg) # TypeOf(q.arg) => p.text # q.text

SameControl == run.pc = run2.pc /\ run.stack = run2.stack

\* C8: two runs from the same initial state agree: whenever both are at the
\* same position (same statement, same pending returns) they are in the same
\* state, output and status included; the output of one is always the
\* beginning of the output of the other; and no state of either run has more
\* than one successor.
C8_Deterministic ==
    /\ SameControl => run = run2
    /\ IsPrefix(run.out, run2.out) \/ IsPrefix(run2.out, run.out)
    /\ Exited(run) /\ Exited(run2) => run.out = run2.out /\ run.status = run2.status
    /\ Cardinality(Step(run)) <= 1
    /\ Cardinality(Step(run2)) <= 1

C8_Witness ==
    /\ Exited(run)
    /\ Exited(run2)
    /\ run.out = run2.out
    /\ run.status = 0
    /\ Len(run.out) = 48

C9_Bindings ==
    /\ \A n \in Names : run.refs[n] # "null" => run.refs[n] \in run.live
    /\ run.refs["rule2.b"] \in {"null", "rule2.x"}
    /\ run.refs["parentheses_effect.b"] \in {"null", "parentheses_effect.x"}
    /\ run.refs["rule3.c"] \in {"null", "get_rvalue.val"}
    /\ run.refs["decltype_auto_demo.ref"] \in {"null", "global_var"}
    /\ run.ret.cat \in {"lvalue", "xvalue"} => run.ret.a \in run.live
    /\ "complex_types.it" \in run.live =>
          run.mem["complex_types.it"].v \in 1..Len(run.heap)
    /\ run.heap # <<>> <=> "complex_types.vec" \in run.live
    /\ run.heap # <<>> => "complex_types" \in CallChain(run)

\* C9: every reference that is bound refers to live storage, and to the
\* object it was declared from: b to the x of its own frame, c to the static val
\* of get_rvalue, ref to global_var; no step accesses dead storage; it,
\* while it exists, points at an element of vec's allocation; and that
\* allocation exists exactly while vec is alive, which is only while
\* complex_types is executing or waiting for a call to return.
C9_ReferentsAreLive == [](C9_Bindings) /\ [][AccessIsLive]_vars

C9_Witness ==
    /\ run.pc = P("print_type", 14, 2)
    /\ run.pt.arg = "rule3.c"
    /\ run.refs["rule3.c"] = "get_rvalue.val"
    /\ run.refs["print_type.var"] = "get_rvalue.val"

Touches(s, a) ==
    \/ a \in s.acc
    \/ s.ret.a = a
    \/ \E n \in Names : s.refs[n] = a

\* C10: global_var is 10 and get_rvalue's val is 42 in every reachable
\* state; a step accesses global_var, or a reference to it exists or is
\* being returned, only while decltype_auto_demo is in the call chain, and
\* likewise val only while rule3 is; so every routine returns with both as
\* it found them.
C10_StaticsUnchanged ==
    /\ run.mem["global_var"] = IntV(10)
    /\ run.mem["get_rvalue.val"] = IntV(42)
    /\ Statics \subseteq run.live
    /\ Touches(run, "global_var") => "decltype_auto_demo" \in CallChain(run)
    /\ Touches(run, "get_rvalue.val") => "rule3" \in CallChain(run)

C10_Witness ==
    /\ run.pc = P("decltype_auto_demo", 89, 1)
    /\ "global_var" \in run.acc
    /\ run.ret = PrV(IntV(10))
    /\ run.mem["global_var"] = IntV(10)

====
